---- MODULE Spec2Model ----
(***************************************************************************)
(* Model of app.py, the habit tracker dashboard.                           *)
(*                                                                         *)
(* The script is re-executed from top to bottom on every user interaction  *)
(* (lines 658-692).  st.session_state survives between executions; TODAY   *)
(* is read from the wall clock at the start of every execution (line 24).  *)
(* Every action below is one complete execution of the script for one      *)
(* user event, including the execution that st.rerun() starts.             *)
(*                                                                         *)
(* Not modelled: exercise_type, exercise_intensity and sleep_regular       *)
(* (written by their widgets, read by nothing), the created_at time stamp  *)
(* of a check-in record, the text of notes, chat messages and reports      *)
(* (abstracted to small sets of values), and page layout.                  *)
(***************************************************************************)
EXTENDS Integers, Sequences, FiniteSets, TLC

\* ------------------------------------------------------------- bounds
\* Calendar dates the wall clock may show.
MaxDate == 2
\* Cap on the accumulated exercise minutes (the code has none).
MaxMinutes == 35
\* Cap on the study counter (the code has none).
MaxStudy == 5
\* Data-carrying user events (input edits, report requests, chat messages)
\* explored in one session of the lifecycle specification.
MaxEvents == 1

\* ---------------------------------------------------------- constants
water_goal == 8

Dates == 1..MaxDate

\* Option lists of the radio widgets, in the order the code gives them.
SleepHoursOptions == <<"5-", "6", "7", "8", "9+">>
SleepQualityOptions == <<"low", "mid", "good">>
WakeTimeOptions == <<"6h", "7h", "8h", "9h+">>
RoutineKeys == {"wash", "bed", "clean"}
MoodOptions == {2, 4, 6, 8, 10}
\* Texts the note field may hold (abstracted).
Notes == {"", "memo"}
\* Insertion order of the per_scores dict (line 268).
PerOrder == <<"water", "exercise", "study", "sleep", "wake">>
Categories == {"water", "exercise", "study", "sleep", "wake"}

Min(a, b) == IF a < b THEN a ELSE b
Max(a, b) == IF a > b THEN a ELSE b

\* Python 3 round() of the rational n/d, n >= 0, d > 0: nearest integer,
\* a tie going to the even neighbour.  The code rounds cups/8*20 and
\* minutes/30*20; the first is exact in binary floating point, the second
\* is never within 1/6 of a tie, so the rational value decides both.
round(n, d) ==
  LET q == n \div d
      r == n % d
  IN  IF 2 * r < d THEN q
      ELSE IF 2 * r > d THEN q + 1
      ELSE IF q % 2 = 0 THEN q ELSE q + 1

\* ------------------------------------------------------ compute_scores
water_score(cups) == Min(round(cups * 20, water_goal), 20)

exercise_score(minutes) == Min(round(minutes * 20, 30), 20)

\* Variant: the study score without its cap.
study_score_unclamped(pomodoros) == pomodoros * 5
study_score(pomodoros) == Min(pomodoros * 5, 20)

sleep_base(hours) ==
  CASE hours = "5-" -> 5
    [] hours = "6" -> 10
    [] hours = "7" -> 20
    [] hours = "8" -> 20
    [] hours = "9+" -> 15

sleep_quality_bonus(quality) ==
  CASE quality = "low" -> 0
    [] quality = "mid" -> 2
    [] quality = "good" -> 4

sleep_score(hours, quality) ==
  Min(sleep_base(hours) + sleep_quality_bonus(quality), 20)

wake_time_score(time) ==
  CASE time = "6h" -> 20
    [] time = "7h" -> 18
    [] time = "8h" -> 12
    [] time = "9h+" -> 8

\* Variant: the wake score computed whatever the wake-success flag.
wake_score_ignoring_success(success, time, routines) ==
  Min(wake_time_score(time) + Cardinality(routines), 20)
wake_score(success, time, routines) ==
  IF success THEN Min(wake_time_score(time) + Cardinality(routines), 20) ELSE 0

\* I is a record of the session's input values (see DailyInputs below).
compute_scores(I) ==
  LET w == water_score(I.water_cups)
      e == exercise_score(I.exercise_minutes)
      s == study_score(I.study_pomodoros)
      sl == sleep_score(I.sleep_hours, I.sleep_quality)
      wk == wake_score(I.wake_success, I.wake_time, I.wake_routines)
  IN  [ total_score |-> w + e + s + sl + wk,
        per_scores |-> [water |-> w, exercise |-> e, study |-> s,
                        sleep |-> sl, wake |-> wk],
        completion |-> [water |-> I.water_cups >= water_goal,
                        exercise |-> I.exercise_minutes >= 20,
                        study |-> I.study_pomodoros >= 1,
                        sleep |-> sl >= 15,
                        wake |-> I.wake_success] ]

\* ------------------------------------------------------ build_feedback
\* sorted(per_scores.items(), key=score, reverse=True): a stable sort, so
\* items of equal score keep the dict's insertion order.  Position of the
\* i-th item of PerOrder in the sorted list.
\* Variant: an ascending sort reversed afterwards, which turns the order
\* of the items of equal score around.
SortedPos_reversed_ties(per, i) ==
  1 + Cardinality({j \in 1..5 : per[PerOrder[j]] > per[PerOrder[i]]})
    + Cardinality({j \in (i + 1)..5 : per[PerOrder[j]] = per[PerOrder[i]]})
SortedPos(per, i) ==
  1 + Cardinality({j \in 1..5 : per[PerOrder[j]] > per[PerOrder[i]]})
    + Cardinality({j \in 1..(i - 1) : per[PerOrder[j]] = per[PerOrder[i]]})

sorted_scores(per) ==
  [p \in 1..5 |->
     LET i == CHOOSE i \in 1..5 : SortedPos(per, i) = p
     IN  <<PerOrder[i], per[PerOrder[i]]>>]

MissionThreshold(c) ==
  CASE c = "water" -> 15
    [] c = "exercise" -> 15
    [] c = "study" -> 10
    [] c = "sleep" -> 15
    [] c = "wake" -> 15

GenericMission == "note"

\* The canned suggestion of a category is named after the category.
triggered_missions(per) ==
  LET F[i \in 0..5] ==
        IF i = 0 THEN <<>>
        ELSE IF per[PerOrder[i]] < MissionThreshold(PerOrder[i])
             THEN Append(F[i - 1], PerOrder[i])
             ELSE F[i - 1]
  IN  F[5]

missions_of(per) ==
  LET all == Append(triggered_missions(per), GenericMission)
  IN  SubSeq(all, 1, Min(3, Len(all)))

build_feedback(per) ==
  LET ss == sorted_scores(per)
  IN  [ top_two |-> <<ss[1], ss[2]>>,
        bottom |-> ss[5],
        missions |-> missions_of(per) ]

\* -------------------------------------------------------------- state
\* An absent value (Python's None, or a missing key) and a present one.
None == <<>>
Some(x) == <<x>>

VARIABLES
  today,               \* TODAY / TODAY_STR as the latest execution read it
  checkin_date,        \* st.session_state["checkin_date"]
  checkin_done_today,
  inputs,              \* the input keys of st.session_state (DailyInputs)
  checkin,             \* dict: date -> check-in record
  history,             \* list of rows {date, achievement, mood}
  checkin_summary,     \* None until the first completed check-in
  last_report, last_weather, last_dog,
  chat_messages,       \* list of roles, one per message
  report_call,         \* the arguments generate_report got in the latest
                       \* execution, None when it was not called
  uncaught,            \* the exception that ended the latest execution
                       \* before its last line, None when it ran through
  external,            \* Some(e): the outside world every report request
                       \* meets is e; None: each request meets any
  fuel                 \* Some(n): n data-carrying user events are left
                       \* to explore; None: no limit

stored == <<checkin, history>>
report == <<last_report, last_weather, last_dog>>
vars == <<today, checkin_date, checkin_done_today, inputs, stored,
          checkin_summary, report, chat_messages, report_call, uncaught,
          external, fuel>>

DailyInputs == inputs

\* The defaults dict of init_state.
Defaults ==
  [ water_cups |-> 0, exercise_minutes |-> 0, study_pomodoros |-> 0,
    sleep_hours |-> "7", sleep_quality |-> "mid",
    wake_success |-> TRUE, wake_time |-> "7h", wake_routines |-> {},
    mood_score |-> 6, daily_note |-> "" ]

\* A radio widget given no index starts at its first option, and its
\* return value is assigned to the session key: the three bucket keys hold
\* the first options, not the defaults, once the widgets were drawn.
RadiosAtFirstOption(I) ==
  [I EXCEPT !.sleep_hours = SleepHoursOptions[1],
            !.sleep_quality = SleepQualityOptions[1],
            !.wake_time = WakeTimeOptions[1]]

\* ---------------------------------------------------------- init_state
\* setdefault leaves a key that exists as it is: after the first execution
\* every input key exists.
\* Variant: init_state assigning the defaults instead of setdefault.
init_state_reset_inputs(I) == Defaults
init_state_inputs(I) == I

\* The roll-over test of init_state: cd is the stored checkin_date, done the
\* stored flag, ck the check-in dict, t the date just read from the clock.
\* Variant: the flag carried over a date change.
init_state_keep_flag(cd, done, ck, t) ==
  [checkin_date |-> t, checkin_done_today |-> done]
\* Variant: the flag cleared on every date change, whatever the store
\* holds for the new date.
init_state_clear_flag(cd, done, ck, t) ==
  IF cd # t
  THEN [checkin_date |-> t, checkin_done_today |-> FALSE]
  ELSE [checkin_date |-> cd, checkin_done_today |-> done]
init_state(cd, done, ck, t) ==
  IF cd # t
  THEN [checkin_date |-> t, checkin_done_today |-> t \in DOMAIN ck]
  ELSE [checkin_date |-> cd, checkin_done_today |-> done]

\* ------------------------------------------------- records and history
\* Variant: the record written with the default mood.
CheckinRecord_no_mood(t, r, mood, note) ==
  [ date |-> t, score |-> r.total_score, per_scores |-> r.per_scores,
    completion |-> r.completion, mood |-> Defaults.mood_score, note |-> note ]
CheckinRecord(t, r, mood, note) ==
  [ date |-> t, score |-> r.total_score, per_scores |-> r.per_scores,
    completion |-> r.completion, mood |-> mood, note |-> note ]

\* Variant: a row dated by a date fixed once instead of by the date of
\* this execution.
HistoryRow_stale_date(t, score, mood) ==
  [date |-> 1, achievement |-> score, mood |-> mood]
HistoryRow(t, score, mood) ==
  [date |-> t, achievement |-> score, mood |-> mood]

\* Index of the first row of the list dated t, 0 when there is none.
existing_idx(h, t) ==
  IF \E i \in 1..Len(h) : h[i].date = t
  THEN CHOOSE i \in 1..Len(h) :
         /\ h[i].date = t
         /\ \A j \in 1..(i - 1) : h[j].date # t
  ELSE 0

update_history_if_needed(h, t, score, mood) ==
  LET idx == existing_idx(h, t)
      row == HistoryRow(t, score, mood)
  IN  IF idx = 0 THEN Append(h, row) ELSE [h EXCEPT ![idx] = row]

SummaryOf(score, fb, note) ==
  [ score |-> score, top_two |-> fb.top_two, bottom |-> fb.bottom,
    missions |-> fb.missions, note |-> note ]

\* render_summary: the cached summary when there is one, else one built
\* from today's record when the check-in is done, else nothing.  The result
\* is both what is cached and what is displayed.
render_summary(summary, done, ck, t) ==
  IF summary # None THEN summary
  ELSE IF done /\ t \in DOMAIN ck
       THEN Some(SummaryOf(ck[t].score, build_feedback(ck[t].per_scores),
                           ck[t].note))
       ELSE None

\* render_chart: the row drawn for today.
today_row(done, h, ck, t, I) ==
  IF done /\ h # <<>>
  THEN IF existing_idx(h, t) # 0 THEN Some(h[existing_idx(h, t)])
       ELSE IF t \in DOMAIN ck
            THEN Some(HistoryRow(t, ck[t].score, ck[t].mood))
            ELSE None
  ELSE Some(HistoryRow(t, compute_scores(I).total_score, I.mood_score))

\* ------------------------------------------------- external services
\* What a GET request can meet: no answer, an answer other than 200, a
\* body that is not JSON, or a 200 answer whose JSON body is
\*   falsy        null, {}, [], 0 or ""
\*   non_object   a non-empty list, a string or a number
\*   status_error an object without the expected fields (for the dog
\*                service: its status field is not "success")
\*   incomplete   an object with one expected field missing
\*   wrong_type   an object with an expected field of the wrong type
\*   no_wind      a well-formed object without the optional wind field
\*   well_formed  the documented object.
HttpFailures == {"neterr", "non200", "not_json"}
Payloads == {"falsy", "non_object", "status_error", "incomplete",
             "wrong_type", "no_wind", "well_formed"}
HttpOutcomes == HttpFailures \cup Payloads

\* safe_get_json: the decoded body, None on any failure of the request.
safe_get_json(http) == IF http \in HttpFailures THEN None ELSE Some(http)

\* get_weather: absent without a key, without data, or when building the
\* result raises; wind falls back to 0.0.
get_weather(has_key, http) ==
  LET data == safe_get_json(http)
  IN  IF ~has_key THEN "none"
      ELSE IF data = None \/ data = Some("falsy") THEN "none"
      ELSE IF data[1] \in {"well_formed", "no_wind"} THEN "weather"
      ELSE "none"

\* The exception data.get raises when data is not a dict.
AttributeError == "AttributeError"

\* get_dog_image: the test of the status field (line 90) is outside the
\* try block; the extraction of the fields is inside.
get_dog_image(http) ==
  LET data == safe_get_json(http)
  IN  IF data = None \/ data = Some("falsy") THEN "none"
      ELSE IF data[1] = "non_object" THEN AttributeError
      ELSE IF data[1] = "status_error" THEN "none"
      ELSE IF data[1] \in {"well_formed", "no_wind"} THEN "dog"
      ELSE "none"

\* What the call of the hosted model ends in: a response with text, a
\* response without, an exception whose message carries one of the markers
\* invalid_api_key, Incorrect API key, 401, or any other exception.
RemoteOutcomes == {"text", "no_text", "auth_error", "other_error"}

\* generate_report: the kind of string it returns.
generate_report(has_lib, has_key, remote) ==
  IF ~has_lib THEN "advisory_no_package"
  ELSE IF ~has_key THEN "advisory_no_key"
  ELSE CASE remote = "text" -> "model_text"
         [] remote = "no_text" -> "advisory_no_text"
         [] remote = "auth_error" -> "invalid_key"
         [] remote = "other_error" -> "error_message"

\* The outside world one report request meets: whether the two key fields
\* of the sidebar are filled, whether the client library was imported, and
\* what the three remote calls end in.
Externals ==
  [ weather_key : BOOLEAN, weather_http : HttpOutcomes,
    dog_http : HttpOutcomes,
    has_lib : BOOLEAN, openai_key : BOOLEAN, remote : RemoteOutcomes ]

WeatherResults == {get_weather(k, h) : k \in BOOLEAN, h \in HttpOutcomes}
DogResults == {get_dog_image(h) : h \in HttpOutcomes}
ReportResults ==
  {generate_report(l, k, r) : l \in BOOLEAN, k \in BOOLEAN, r \in RemoteOutcomes}

\* The arguments render_ai_report passes to generate_report: habits, mood
\* and note of today's record, each falling back (an empty habit map, the
\* live mood, the live note) when the record is missing.
report_arguments(ck, t, I) ==
  LET has == t \in DOMAIN ck
  IN  [ habits |-> [c \in Categories |->
                      IF has THEN ck[t].completion[c] ELSE FALSE],
        mood |-> IF has THEN ck[t].mood ELSE I.mood_score,
        daily_note |-> IF has THEN ck[t].note ELSE I.daily_note,
        date |-> t ]

\* ---------------------------------------------------------------- Init
EmptyDict == [d \in {} |-> None]

\* The state the first execution of the script leaves in a new session.
FirstExecution(limit) ==
  /\ today = 1
  /\ checkin_date = today
  /\ checkin_done_today = FALSE
  /\ inputs = RadiosAtFirstOption(Defaults)
  /\ checkin = EmptyDict
  /\ history = <<>>
  /\ checkin_summary = None
  /\ last_report = "none" /\ last_weather = "none" /\ last_dog = "none"
  /\ chat_messages = <<>>
  /\ report_call = None
  /\ uncaught = None
  /\ fuel = limit

Init == FirstExecution(Some(MaxEvents)) /\ external = None

InitInputs == FirstExecution(None) /\ external = None

\* A new session in each outside world a report request can meet.
InitExternal == FirstExecution(None) /\ external \in {Some(e) : e \in Externals}

\* ------------------------------------------------------------- actions
HasFuel == fuel # Some(0)
Burn == fuel' = IF fuel = None THEN None ELSE Some(fuel[1] - 1)

\* What an execution leaves in the session once the check-in area and the
\* summary are drawn: t the date read, st the result of init_state, J the
\* input values, ck and h the stored records, summary the cached summary.
Finish(t, st, J, ck, h, summary) ==
  LET s2 == render_summary(summary, st.checkin_done_today, ck, t)
  IN  /\ today' = t
      /\ checkin_date' = st.checkin_date
      /\ checkin_done_today' = st.checkin_done_today
      /\ inputs' = J
      /\ checkin' = ck
      /\ history' = h
      /\ checkin_summary' = s2

\* Whether the input widgets are drawn (main script, line 665).
inputs_drawn(done) == ~done

\* One execution on an unchanged date in which one input widget fired,
\* leaving the inputs at J.
Edit(J) ==
  LET st == init_state(checkin_date, checkin_done_today, checkin, today)
  IN  /\ inputs_drawn(checkin_done_today)
      /\ inputs_drawn(st.checkin_done_today)
      /\ HasFuel /\ Burn
      /\ Finish(today, st, J, checkin, history, checkin_summary)
      /\ report_call' = None /\ uncaught' = None
      /\ UNCHANGED <<report, chat_messages, external>>

Cur == init_state_inputs(DailyInputs)

WaterMinus ==
  Edit([Cur EXCEPT !.water_cups = Max(0, Cur.water_cups - 1)])

WaterPlus ==
  Edit([Cur EXCEPT !.water_cups = Min(water_goal, Cur.water_cups + 1)])

ExercisePlus(n) ==
  /\ Cur.exercise_minutes + n <= MaxMinutes
  /\ Edit([Cur EXCEPT !.exercise_minutes = Cur.exercise_minutes + n])

ExercisePlus5 == ExercisePlus(5)
ExercisePlus10 == ExercisePlus(10)
ExercisePlus20 == ExercisePlus(20)

ExerciseReset == Edit([Cur EXCEPT !.exercise_minutes = 0])

StudyMinus ==
  Edit([Cur EXCEPT !.study_pomodoros = Max(0, Cur.study_pomodoros - 1)])

StudyPlus ==
  /\ Cur.study_pomodoros < MaxStudy
  /\ Edit([Cur EXCEPT !.study_pomodoros = Cur.study_pomodoros + 1])

SelectSleepHours ==
  \E i \in 1..Len(SleepHoursOptions) :
    /\ SleepHoursOptions[i] # Cur.sleep_hours
    /\ Edit([Cur EXCEPT !.sleep_hours = SleepHoursOptions[i]])

SelectSleepQuality ==
  \E i \in 1..Len(SleepQualityOptions) :
    /\ SleepQualityOptions[i] # Cur.sleep_quality
    /\ Edit([Cur EXCEPT !.sleep_quality = SleepQualityOptions[i]])

ToggleWakeSuccess == Edit([Cur EXCEPT !.wake_success = ~Cur.wake_success])

SelectWakeTime ==
  \E i \in 1..Len(WakeTimeOptions) :
    /\ WakeTimeOptions[i] # Cur.wake_time
    /\ Edit([Cur EXCEPT !.wake_time = WakeTimeOptions[i]])

ToggleRoutine ==
  \E k \in RoutineKeys :
    Edit([Cur EXCEPT !.wake_routines =
            IF k \in Cur.wake_routines THEN Cur.wake_routines \ {k}
            ELSE Cur.wake_routines \cup {k}])

SelectMood ==
  \E m \in MoodOptions : Edit([Cur EXCEPT !.mood_score = m])

EditNote ==
  \E n \in Notes :
    /\ n # Cur.daily_note
    /\ Edit([Cur EXCEPT !.daily_note = n])

\* Whether render_checkin_actions draws its button (lines 436-438).
\* Variant: the complete button drawn whatever the flag.
complete_button_always(done) == TRUE
complete_button_drawn(done) == ~done

\* The "complete check-in" button: the record, the history row and the
\* summary are written, then st.rerun() starts the execution that draws
\* the page.
Complete ==
  LET st == init_state(checkin_date, checkin_done_today, checkin, today)
      r == compute_scores(Cur)
      fb == build_feedback(r.per_scores)
      ck == (today :> CheckinRecord(today, r, Cur.mood_score, Cur.daily_note))
              @@ checkin
      h == update_history_if_needed(history, today, r.total_score,
                                    Cur.mood_score)
      st2 == init_state(st.checkin_date, TRUE, ck, today)
  IN  /\ complete_button_drawn(checkin_done_today)
      /\ complete_button_drawn(st.checkin_done_today)
      /\ Finish(today, st2, Cur, ck, h,
                Some(SummaryOf(r.total_score, fb, Cur.daily_note)))
      /\ report_call' = None /\ uncaught' = None
      /\ UNCHANGED <<report, chat_messages, external, fuel>>

\* An execution with no event of the widgets modelled here (the city or
\* the coach was changed, a key was typed).
Rerun ==
  LET st == init_state(checkin_date, checkin_done_today, checkin, today)
  IN  /\ Finish(today, st, Cur, checkin, history, checkin_summary)
      /\ report_call' = None /\ uncaught' = None
      /\ UNCHANGED <<report, chat_messages, external, fuel>>

\* The first execution after the wall clock moved to another date.  The
\* clock is the local one and the code assumes nothing about its direction.
\* The three radios hold their selection only while they are drawn: drawn
\* again after an execution that skipped them, they are back at their
\* first option.
DateChange ==
  \E d \in Dates \ {today} :
    LET st == init_state(checkin_date, checkin_done_today, checkin, d)
        J == IF inputs_drawn(st.checkin_done_today)
                  /\ ~inputs_drawn(checkin_done_today)
             THEN RadiosAtFirstOption(Cur) ELSE Cur
    IN  /\ Finish(d, st, J, checkin, history, checkin_summary)
        /\ report_call' = None /\ uncaught' = None
        /\ UNCHANGED <<report, chat_messages, external, fuel>>

\* Whether render_ai_report draws its button (lines 546-548).
\* Variant: the report button drawn whatever the flag.
report_button_open(done) == TRUE
report_button_drawn(done) == done

\* What the three calls of one report request return in the outside
\* world e.  The weather is looked up only with a key (line 552).
external_results(e) ==
  [ weather |-> IF e.weather_key THEN get_weather(TRUE, e.weather_http)
                ELSE "none",
    dog |-> get_dog_image(e.dog_http),
    report |-> generate_report(e.has_lib, e.openai_key, e.remote) ]

\* render_ai_report with its button pressed, the three calls ending in
\* weather, dog and text.  An exception of the dog lookup ends the
\* execution at line 553: nothing of the report is stored and
\* generate_report is not called.
render_ai_report(weather, dog, text) ==
  IF dog = AttributeError
  THEN /\ uncaught' = Some(dog)
       /\ report_call' = None
       /\ UNCHANGED report
  ELSE /\ uncaught' = None
       /\ last_weather' = weather
       /\ last_dog' = dog
       /\ report_call' = Some(report_arguments(checkin, today, Cur))
       /\ last_report' = text

\* The "generate report" button.
GenerateReport ==
  LET st == init_state(checkin_date, checkin_done_today, checkin, today)
  IN  /\ report_button_drawn(checkin_done_today)
      /\ report_button_drawn(st.checkin_done_today)
      /\ HasFuel /\ Burn
      /\ Finish(today, st, Cur, checkin, history, checkin_summary)
      /\ \E w \in WeatherResults, d \in DogResults, r \in ReportResults :
           /\ external # None =>
                [weather |-> w, dog |-> d, report |-> r]
                  = external_results(external[1])
           /\ render_ai_report(w, d, r)
      /\ UNCHANGED <<chat_messages, external>>

\* A chat message: the message and the reply are appended, then st.rerun().
Chat ==
  LET st == init_state(checkin_date, checkin_done_today, checkin, today)
  IN  /\ HasFuel /\ Burn
      /\ Finish(today, st, Cur, checkin, history, checkin_summary)
      /\ chat_messages' = chat_messages \o <<"user", "assistant">>
      /\ report_call' = None /\ uncaught' = None
      /\ UNCHANGED <<report, external>>

\* ------------------------------------------------------------ the page
\* Drawing reads the session and writes nothing but the summary cache, so
\* what the latest execution put on the page is a function of the state
\* it left.

\* render_metrics: the metric labelled "today's score".
metric_score == compute_scores(inputs).total_score

\* render_summary: the block "today's total / top 2 / weak point /
\* tomorrow's 3 missions", drawn whenever a summary is cached.
displayed_summary == checkin_summary

\* render_ai_report: the notice "the report can be generated after the
\* check-in is completed".
not_ready_notice == ~report_button_drawn(checkin_done_today)

\* render_chart: the bar drawn for today.
chart_today == today_row(checkin_done_today, history, checkin, today, inputs)

NextInputs ==
  \/ WaterMinus \/ WaterPlus
  \/ ExercisePlus5 \/ ExercisePlus10 \/ ExercisePlus20 \/ ExerciseReset
  \/ StudyMinus \/ StudyPlus
  \/ SelectSleepHours \/ SelectSleepQuality
  \/ ToggleWakeSuccess \/ SelectWakeTime \/ ToggleRoutine

Next ==
  \/ WaterMinus \/ WaterPlus
  \/ ExercisePlus5 \/ ExercisePlus10 \/ ExercisePlus20 \/ ExerciseReset
  \/ StudyMinus \/ StudyPlus
  \/ SelectSleepHours \/ SelectSleepQuality
  \/ ToggleWakeSuccess \/ SelectWakeTime \/ ToggleRoutine
  \/ SelectMood \/ EditNote
  \/ Complete \/ Rerun \/ DateChange \/ GenerateReport \/ Chat

\* The whole application, with a bounded number of data-carrying events.
Spec == Init /\ [][Next]_vars

\* The input widgets alone, on one date, before the check-in is completed.
SpecInputs == InitInputs /\ [][NextInputs]_vars

\* A check-in completed and the report requested, in each outside world.
NextExternal == Complete \/ GenerateReport

SpecExternal == InitExternal /\ [][NextExternal]_vars

\* =============================================================== claims

\* ---- C1 (SpecInputs) ----
\* C1: in every state reachable through the input widgets, compute_scores
\* returns five sub-scores each in 0..20 and a total in 0..100 that is the
\* sum of the five sub-scores.
C1_ScoresInRange ==
  LET r == compute_scores(inputs)
  IN  /\ \A c \in Categories : r.per_scores[c] \in 0..20
      /\ r.total_score \in 0..100
      /\ r.total_score = r.per_scores["water"] + r.per_scores["exercise"]
                         + r.per_scores["study"] + r.per_scores["sleep"]
                         + r.per_scores["wake"]

\* Every category at or beyond the point where its clamp acts.
C1_Witness ==
  /\ inputs.water_cups = water_goal
  /\ inputs.exercise_minutes > 30
  /\ inputs.study_pomodoros > 4
  /\ inputs.sleep_hours = "8" /\ inputs.sleep_quality = "good"
  /\ inputs.wake_success /\ inputs.wake_time = "6h"
  /\ inputs.wake_routines = RoutineKeys
  /\ compute_scores(inputs).total_score = 100

\* ---- C2 (Spec) ----
\* C2: the check-in store holds at most one record per date (no two
\* records carry the same date) and the history list holds at most one row
\* per date.
C2_OnePerDate ==
  /\ \A d1 \in DOMAIN checkin : \A d2 \in DOMAIN checkin :
       checkin[d1].date = checkin[d2].date => d1 = d2
  /\ \A d \in DOMAIN checkin : checkin[d].date = d
  /\ \A i \in 1..Len(history) : \A j \in 1..Len(history) :
       history[i].date = history[j].date => i = j

\* Check-ins were completed on two dates, a clock step back to the first
\* one in between or not.
C2_Witness ==
  /\ DOMAIN checkin = {1, 2}
  /\ Len(history) = 2
  /\ checkin_done_today

\* ---- C3 (Spec) ----
RowsOf(h, d) == SelectSeq(h, LAMBDA row : row.date = d)

\* C3: the step that completes the check-in of a date leaves, for that
\* date, a record holding the total, the sub-scores, the completion map,
\* the mood and the note computed from the inputs as they are at that
\* moment, and a history row holding the same total and mood.
C3_RecordIsSnapshot ==
  [][ (~checkin_done_today /\ checkin_done_today' /\ today' = today) =>
        LET r == compute_scores(inputs')
        IN  /\ today \in DOMAIN checkin'
            /\ checkin'[today] =
                 [ date |-> today, score |-> r.total_score,
                   per_scores |-> r.per_scores, completion |-> r.completion,
                   mood |-> inputs'.mood_score, note |-> inputs'.daily_note ]
            /\ RowsOf(history', today) =
                 << [ date |-> today, achievement |-> r.total_score,
                      mood |-> inputs'.mood_score ] >> ]_vars

\* A check-in completed after the mood was changed from its default.
C3_Witness ==
  /\ checkin_done_today
  /\ today \in DOMAIN checkin
  /\ checkin[today].mood # Defaults.mood_score
  /\ inputs.mood_score = checkin[today].mood

C5_ClosedStaysClosed ==
  [][ (checkin_done_today /\ today' = today) =>
        /\ checkin_done_today'
        /\ checkin' = checkin
        /\ history' = history ]_vars

\* A report was requested on a completed date.
C5_Witness ==
  /\ checkin_done_today
  /\ report_call # None
  /\ today \in DOMAIN checkin
  /\ Len(history) = 1

\* ---- C6 (Spec) ----
\* C6: while the check-in of the current date is not completed no
\* finalized summary is drawn and the score drawn is the provisional one;
\* while it is completed the summary drawn is the one derived from the
\* stored record of the current date.
C6_DisplayFollowsLifecycle ==
  /\ ~checkin_done_today =>
       /\ displayed_summary = None
       /\ metric_score = compute_scores(inputs).total_score
  /\ checkin_done_today =>
       /\ today \in DOMAIN checkin
       /\ displayed_summary =
            Some(SummaryOf(checkin[today].score,
                           build_feedback(checkin[today].per_scores),
                           checkin[today].note))

\* ---- C7 (Spec) ----
\* C7: a change to a date without a record leaves the completion flag
\* false and the stored records and history as they were, and no step
\* changes the record or the history rows of a date other than the one it
\* runs on.
C7_NewDateOpenOthersKept ==
  [][ /\ (today' # today /\ today' \notin DOMAIN checkin) =>
           /\ ~checkin_done_today'
           /\ checkin' = checkin
           /\ history' = history
      /\ \A d \in Dates \ {today'} :
           /\ d \in DOMAIN checkin =>
                (d \in DOMAIN checkin' /\ checkin'[d] = checkin[d])
           /\ RowsOf(history', d) = RowsOf(history, d) ]_vars

\* Two dates completed with different scores, the first one's record
\* still there.
C7_Witness ==
  /\ DOMAIN checkin = {1, 2}
  /\ checkin[1].score # checkin[2].score
  /\ RowsOf(history, 1) # <<>> /\ RowsOf(history, 2) # <<>>

\* ---- C8 (Spec) ----
\* C8, as claimed: the first provisional score of a new date is the score
\* of the default inputs (the defaults of init_state, or those with the
\* radios at their first option as a new session shows them).
C8_ScoreFromDefaults ==
  [][ (today' # today /\ ~checkin_done_today') =>
        metric_score' \in
          { compute_scores(Defaults).total_score,
            compute_scores(RadiosAtFirstOption(Defaults)).total_score } ]_vars

\* C8, amended: a date change resets no input; water cups, exercise
\* minutes, study units, wake-success, routine tags, mood and note are
\* carried over, and the first provisional score of the new date is
\* computed from them and the radio selections as drawn.
C8_InputsCarriedOver ==
  [][ today' # today =>
        /\ inputs'.water_cups = inputs.water_cups
        /\ inputs'.exercise_minutes = inputs.exercise_minutes
        /\ inputs'.study_pomodoros = inputs.study_pomodoros
        /\ inputs'.wake_success = inputs.wake_success
        /\ inputs'.wake_routines = inputs.wake_routines
        /\ inputs'.mood_score = inputs.mood_score
        /\ inputs'.daily_note = inputs.daily_note
        /\ metric_score' =
             compute_scores([inputs EXCEPT
                               !.sleep_hours = inputs'.sleep_hours,
                               !.sleep_quality = inputs'.sleep_quality,
                               !.wake_time = inputs'.wake_time]).total_score ]_vars

\* A date whose check-in is open, reached from a date completed with one
\* cup of water, the cup still counted.
C8_Witness ==
  /\ today = 2 /\ ~checkin_done_today
  /\ DOMAIN checkin = {1}
  /\ checkin[1].per_scores["water"] > 0
  /\ inputs.water_cups = 1
  /\ metric_score # compute_scores(Defaults).total_score
  /\ metric_score # compute_scores(RadiosAtFirstOption(Defaults)).total_score

\* The reference of the scoring rules, written from their statement.
\* RefRound: the integer nearest to n/d (at most half a unit away), the
\* even one of two equally near.
RefDist(n, d, k) == IF d * k >= n THEN d * k - n ELSE n - d * k
RefRound(n, d) ==
  CHOOSE k \in 0..(n \div d + 1) :
    /\ 2 * RefDist(n, d, k) <= d
    /\ 2 * RefDist(n, d, k) = d => k % 2 = 0

RefIndex(options, x) == CHOOSE i \in 1..Len(options) : options[i] = x

RefScores(I) ==
  LET w == Min(RefRound(20 * I.water_cups, 8), 20)
      e == Min(RefRound(20 * I.exercise_minutes, 30), 20)
      s == Min(5 * I.study_pomodoros, 20)
      sl == Min(<<5, 10, 20, 20, 15>>[RefIndex(SleepHoursOptions, I.sleep_hours)]
                + <<0, 2, 4>>[RefIndex(SleepQualityOptions, I.sleep_quality)],
                20)
      wk == IF ~I.wake_success THEN 0
            ELSE Min(<<20, 18, 12, 8>>[RefIndex(WakeTimeOptions, I.wake_time)]
                     + Cardinality(I.wake_routines), 20)
  IN  [ per_scores |-> [water |-> w, exercise |-> e, study |-> s,
                        sleep |-> sl, wake |-> wk],
        completion |-> [water |-> I.water_cups >= 8,
                        exercise |-> I.exercise_minutes >= 20,
                        study |-> I.study_pomodoros >= 1,
                        sleep |-> sl >= 15,
                        wake |-> I.wake_success] ]

\* C9: for every reachable input, the sub-scores and the completion map of
\* compute_scores are those of the reference: water does not decrease from
\* one cup count to the next, with 4 -> 10 and 8 -> 20, exercise has 20 -> 13 and 20 from 30
\* minutes on, wake is 0 when wake-success is false.
C9_ScoresMatchReference ==
  LET r == compute_scores(inputs)
  IN  /\ r.per_scores = RefScores(inputs).per_scores
      /\ r.completion = RefScores(inputs).completion
      /\ (inputs.water_cups > 0 =>
            compute_scores([inputs EXCEPT !.water_cups = @ - 1])
              .per_scores["water"] <= r.per_scores["water"])
      /\ (inputs.water_cups = 4 => r.per_scores["water"] = 10)
      /\ (inputs.water_cups = 8 => r.per_scores["water"] = 20)
      /\ (inputs.exercise_minutes = 20 => r.per_scores["exercise"] = 13)
      /\ (inputs.exercise_minutes >= 30 => r.per_scores["exercise"] = 20)
      /\ (~inputs.wake_success => r.per_scores["wake"] = 0)

\* Wake-success is off while the bucket and the routines would score, and
\* the inputs sit on the values the claim names.
C9_Witness ==
  /\ ~inputs.wake_success
  /\ inputs.wake_time = "6h" /\ inputs.wake_routines # {}
  /\ inputs.water_cups = 4
  /\ inputs.exercise_minutes = 20
  /\ inputs.study_pomodoros = 1
  /\ compute_scores(inputs).per_scores["sleep"] = 15

\* ---- C10 (SpecInputs) ----
RefMissions(per) ==
  LET below(c) == per[c] < MissionThreshold(c)
      hit == SelectSeq(PerOrder, below)
      pad == <<GenericMission, GenericMission, GenericMission>>
  IN  SubSeq(hit \o pad, 1, 3)

\* C10: build_feedback returns exactly 3 missions: the suggestions of the
\* categories below their thresholds, in the order water, exercise, study,
\* sleep, wake, padded with the generic suggestion and cut to 3.
C10_ThreeMissions ==
  LET per == compute_scores(inputs).per_scores
      m == build_feedback(per).missions
  IN  /\ Len(m) = 3
      /\ m = RefMissions(per)

\* ---- C11 (SpecInputs) ----
\* The reference of the ranking, written from its statement.  RefRank: the
\* place of a category in the order water, exercise, study, sleep, wake.
RefRank(c) == RefIndex(PerOrder, c)

\* The category of S with the highest score, the earliest of equals.
RefHighest(per, S) ==
  CHOOSE c \in S :
    \A o \in S : per[o] < per[c] \/ (per[o] = per[c] /\ RefRank(c) <= RefRank(o))

\* The category with the lowest score, the earliest of equals.
RefLowestEarliest(per) ==
  CHOOSE c \in Categories :
    \A o \in Categories :
      per[o] > per[c] \/ (per[o] = per[c] /\ RefRank(c) <= RefRank(o))

\* The category with the lowest score, the latest of equals.
RefLowestLatest(per) ==
  CHOOSE c \in Categories :
    \A o \in Categories :
      per[o] > per[c] \/ (per[o] = per[c] /\ RefRank(c) >= RefRank(o))

RefTopTwo(per) ==
  LET first == RefHighest(per, Categories)
      second == RefHighest(per, Categories \ {first})
  IN  << <<first, per[first]>>, <<second, per[second]>> >>

\* C11, as claimed: build_feedback reports as strengths the two highest
\* sub-scores and as weak point the lowest one, and among categories of
\* equal score the one earlier in the order water, exercise, study, sleep,
\* wake is chosen in both cases.
C11_TiesEarlierFirst ==
  LET per == compute_scores(inputs).per_scores
      fb == build_feedback(per)
      low == RefLowestEarliest(per)
  IN  /\ fb.top_two = RefTopTwo(per)
      /\ fb.bottom = <<low, per[low]>>

\* C11, amended: build_feedback reports as strengths the two highest
\* sub-scores, the earlier category first among equals, and as weak point
\* the lowest sub-score, the LATER category among equals (the last item of
\* the stable descending sort).
C11_StrengthsAndWeakPoint ==
  LET per == compute_scores(inputs).per_scores
      fb == build_feedback(per)
      low == RefLowestLatest(per)
  IN  /\ fb.top_two = RefTopTwo(per)
      /\ fb.bottom = <<low, per[low]>>

\* Three categories share the highest score and two the lowest: water and
\* sleep are the strengths (wake, equal to them, is not), study is the weak
\* point (exercise, equal to it, is not).
C11_Witness ==
  LET per == compute_scores(inputs).per_scores
      fb == build_feedback(per)
  IN  /\ per["water"] = 20 /\ per["sleep"] = 20 /\ per["wake"] = 20
      /\ per["exercise"] = 0 /\ per["study"] = 0
      /\ fb.top_two = << <<"water", 20>>, <<"sleep", 20>> >>
      /\ fb.bottom = <<"study", 0>>

\* ---- C12 (SpecExternal) ----
\* The report was requested in the latest execution.
ReportRequested == report_call # None \/ uncaught # None

\* The bodies of a 200 answer that are not the documented object.
MalformedPayloads ==
  {"falsy", "non_object", "status_error", "incomplete", "wrong_type"}

\* C12: a report request never ends in an uncaught exception, whatever the
\* outside world; the weather is absent without a key, on a non-200
\* answer, a network error or a malformed payload; the dog image is absent
\* on any failure; the report is an advisory string without the client
\* library or the key, the invalid-key message on an authentication error,
\* the error string on any other error, the model's text on success.
C12_ExternalOutcomesRecovered ==
  ReportRequested =>
    LET e == external[1]
    IN  /\ uncaught = None
        /\ (~e.weather_key \/ e.weather_http \in HttpFailures
              \/ e.weather_http \in MalformedPayloads) => last_weather = "none"
        /\ (e.dog_http \in HttpFailures \/ e.dog_http \in MalformedPayloads)
             => last_dog = "none"
        /\ ~e.has_lib => last_report = "advisory_no_package"
        /\ (e.has_lib /\ ~e.openai_key) => last_report = "advisory_no_key"
        /\ (e.has_lib /\ e.openai_key) =>
             /\ e.remote = "auth_error" => last_report = "invalid_key"
             /\ e.remote = "other_error" => last_report = "error_message"
             /\ e.remote = "text" => last_report = "model_text"

\* ---- C13 (Spec) ----
\* C13: in every state an execution leaves, checkin_done_today is true if
\* and only if the check-in store holds a record keyed by (and dated) the
\* current date, and then the history list holds a row of the current date
\* with the score and the mood of that record.
C13_FlagMatchesStore ==
  /\ checkin_done_today <=> today \in DOMAIN checkin
  /\ checkin_done_today =>
       /\ checkin[today].date = today
       /\ \E i \in 1..Len(history) :
            /\ history[i].date = today
            /\ history[i].achievement = checkin[today].score
            /\ history[i].mood = checkin[today].mood

\* The second date was completed with a mood other than the first one's,
\* and the row of the second date carries it.
C13_Witness ==
  /\ checkin_done_today /\ today = 2
  /\ DOMAIN checkin = {1, 2}
  /\ checkin[2].mood # checkin[1].mood
  /\ RowsOf(history, 2) =
       << [date |-> 2, achievement |-> checkin[2].score,
           mood |-> checkin[2].mood] >>
====
